---- MODULE Spec2Model ----
(***************************************************************************)
(* A model of jwlib/output.py: the output stage that renders a list of     *)
(* categories as a list on stdout, as M3U/HTML playlists or as a tree of   *)
(* directories and symlinks.                                               *)
(*                                                                         *)
(* Strings are sequences of characters (one-character strings, or atoms    *)
(* such as ".m3u" that the code never looks into).  A path is a sequence   *)
(* of components, a component is a string.  The filesystem is a function   *)
(* from the absolute paths that exist to their nodes.                      *)
(***************************************************************************)
EXTENDS Integers, Sequences, FiniteSets, TLC

VARIABLES
    s,          \* Settings: the finished configuration record
    data,       \* List[Category]
    stdout_uniq,\* create_output's keyword argument
    cwd,        \* the process's current directory (exists_in('.'), relpath)
    fs,         \* the filesystem: path -> node
    fs0,        \* the filesystem when create_output (or the repeated
                \* output_filesystem) was called
    stdout,     \* what print() wrote, one element per call
    log,        \* what msg() wrote
    pc,         \* where the program is
    run,        \* number of the emitter run (output_filesystem may be re-run)
    ci,         \* output_m3u/output_filesystem: index of `category` in data
    ii,         \* index of the next `item` in category.contents
    is_start,   \* output_m3u: is_start
    todo_dirs,  \* clean_symlinks: entries of os.listdir(path) not yet visited
    subdir,     \* clean_symlinks: the subdirectory being scanned
    todo_files, \* clean_symlinks: entries of os.listdir(subdir) not yet visited
    calls,      \* history: every call of the writer and of os.symlink
    string,     \* format_filename: argument
    safe,       \* format_filename: argument
    result      \* format_filename: return value

vars == <<s, data, stdout_uniq, cwd, fs, fs0, stdout, log, pc, run, ci, ii,
          is_start, todo_dirs, subdir, todo_files, calls, string, safe, result>>

(***************************************************************************)
(* Bounds of the model.                                                    *)
(***************************************************************************)
MaxLen == 3      \* longest string given to format_filename on its own
MaxItems == 2    \* most items in the contents of all categories together

\* all sequences over S of length at most n
RECURSIVE SeqsUpTo(_, _)
SeqsUpTo(S, n) ==
    IF n = 0 THEN {<<>>}
    ELSE LET shorter == SeqsUpTo(S, n - 1)
         IN  shorter \cup {Append(q, x) : q \in shorter, x \in S}

(***************************************************************************)
(* format_filename                                                         *)
(***************************************************************************)
NUL == "NUL"     \* the character '\0'

\* str.replace(old, new) for one-character old and new
replace(str, old, new) ==
    [i \in 1..Len(str) |-> IF str[i] = old THEN new ELSE str[i]]

\* a plausible slip: the forbidden characters are dropped before the
\* substitution, so a colon or a double quote is lost instead of replaced
format_filename_filter_first(str, is_safe) ==
    LET forbidden == IF is_safe
                     THEN {"<", ">", ":", "\"", "|", "?", "*", "/", NUL}
                     ELSE {"/", NUL}
        kept == SelectSeq(str, LAMBDA x : x \notin forbidden)
    IN  IF is_safe THEN replace(replace(kept, "\"", "'"), ":", ".") ELSE kept

format_filename(str, is_safe) ==
    LET replaced  == IF is_safe
                     THEN replace(replace(str, "\"", "'"), ":", ".")
                     ELSE str
        forbidden == IF is_safe
                     THEN {"<", ">", ":", "\"", "|", "?", "*", "/", NUL}
                     ELSE {"/", NUL}
    IN  SelectSeq(replaced, LAMBDA x : x \notin forbidden)

\* the characters the standalone check of format_filename draws from
Alphabet == {"a", "/", NUL, "<", ">", ":", "\"", "|", "?", "*", "'", "."}

(***************************************************************************)
(* The filesystem.  Paths are absolute; the root <<>> is a directory that  *)
(* always exists.  A node is a directory, a regular file (with what was    *)
(* written to it, one element per write call) or a symlink (with the path  *)
(* it stores, relative to its own directory).                              *)
(***************************************************************************)
DirNode == [kind |-> "dir", content |-> <<>>, target |-> <<>>]
FileNode(c) == [kind |-> "file", content |-> c, target |-> <<>>]
LinkNode(t) == [kind |-> "link", content |-> <<>>, target |-> t]

NoPath == << <<"ENOENT">> >>     \* the answer of a failed path resolution

Front(q) == SubSeq(q, 1, Len(q) - 1)
Last(q) == q[Len(q)]

\* os.path.join for relative second arguments
pj(a, b) == a \o b

\* The kernel's path walk: the path of the node that `comps`, read from the
\* directory `base`, names, or NoPath.  Symlinks are followed (the last
\* component only when follow_last); a symlink met twice is a loop.
RECURSIVE Walk(_, _, _, _, _)
Walk(f, base, comps, seen, follow_last) ==
    IF comps = <<>> THEN base
    ELSE LET h == Head(comps)
             rest == Tail(comps)
             p == Append(base, h)
         IN  IF h = <<".">> \/ h = <<>> THEN Walk(f, base, rest, seen, follow_last)
             ELSE IF h = <<"..">>
                  THEN Walk(f, IF base = <<>> THEN base ELSE Front(base),
                            rest, seen, follow_last)
             ELSE IF p \notin DOMAIN f THEN NoPath
             ELSE IF f[p].kind = "link"
                  THEN IF rest = <<>> /\ ~follow_last THEN p
                       ELSE IF p \in seen THEN NoPath
                       ELSE Walk(f, base, f[p].target \o rest, seen \cup {p},
                                 follow_last)
             ELSE IF f[p].kind = "dir" THEN Walk(f, p, rest, seen, follow_last)
             ELSE IF rest = <<>> THEN p ELSE NoPath

\* os.path.exists, os.path.lexists, os.path.isdir, os.path.islink
exists(f, path) == Walk(f, <<>>, path, {}, TRUE) # NoPath
lexists(f, path) == Walk(f, <<>>, path, {}, FALSE) # NoPath
isdir(f, path) ==
    LET r == Walk(f, <<>>, path, {}, TRUE)
    IN  r # NoPath /\ (r = <<>> \/ f[r].kind = "dir")
islink(f, path) ==
    LET r == Walk(f, <<>>, path, {}, FALSE)
    IN  r # NoPath /\ r # <<>> /\ f[r].kind = "link"

\* where a new entry named by `path` is stored: its directory, resolved
place(f, path) == Append(Walk(f, <<>>, Front(path), {}, TRUE), Last(path))

\* os.listdir(path) of a directory: the names in it
listdir(f, path) ==
    LET r == Walk(f, <<>>, path, {}, TRUE)
    IN  {Last(p) : p \in {q \in DOMAIN f : q # <<>> /\ Front(q) = r}}

\* os.makedirs(name, exist_ok=True): ok is FALSE when it raises
RECURSIVE makedirs(_, _)
makedirs(f, name) ==
    IF name = <<>> THEN [ok |-> TRUE, fs |-> f]
    ELSE LET g == IF exists(f, Front(name)) THEN f
                  ELSE makedirs(f, Front(name)).fs
         IN  IF lexists(g, name) THEN [ok |-> isdir(g, name), fs |-> g]
             ELSE IF ~isdir(g, Front(name)) THEN [ok |-> FALSE, fs |-> g]
             ELSE [ok |-> TRUE, fs |-> g @@ (place(g, name) :> DirNode)]

\* a slip: the link replaces whatever is at the path (as ln -sf would)
symlink_replacing(f, source, link) ==
    IF ~isdir(f, Front(link)) THEN [err |-> "FileNotFoundError", fs |-> f]
    ELSE [err |-> "", fs |-> (place(f, link) :> LinkNode(source)) @@ f]

\* os.symlink(source, link): err names the exception raised, "" for none
symlink(f, source, link) ==
    IF lexists(f, link) THEN [err |-> "FileExistsError", fs |-> f]
    ELSE IF ~isdir(f, Front(link)) THEN [err |-> "FileNotFoundError", fs |-> f]
    ELSE [err |-> "", fs |-> f @@ (place(f, link) :> LinkNode(source))]

\* os.remove(file) of a path that islink(): the link itself goes
remove(f, file) ==
    LET r == Walk(f, <<>>, file, {}, FALSE)
    IN  [p \in DOMAIN f \ {r} |-> f[p]]

\* open(file, mode).write(chunk) for mode 'w' or 'a': ok is FALSE when open
\* raises (a directory at the path, no directory to create the file in)
write(f, file, chunk, mode) ==
    LET r == Walk(f, <<>>, file, {}, TRUE)
    IN  IF r # NoPath
        THEN IF r = <<>> \/ f[r].kind # "file" THEN [ok |-> FALSE, fs |-> f]
             ELSE [ok |-> TRUE,
                   fs |-> [f EXCEPT ![r].content =
                              IF mode = "w" THEN <<chunk>> ELSE Append(@, chunk)]]
        ELSE IF lexists(f, file) \/ ~isdir(f, Front(file))
             THEN [ok |-> FALSE, fs |-> f]
             ELSE [ok |-> TRUE, fs |-> f @@ (place(f, file) :> FileNode(<<chunk>>))]

\* os.stat(file).st_size != 0, FALSE also for FileNotFoundError
nonempty(f, file) ==
    LET r == Walk(f, <<>>, file, {}, TRUE)
    IN  r # NoPath /\ (r = <<>> \/ f[r].kind = "dir" \/ f[r].content # <<>>)

(***************************************************************************)
(* Settings, Category, Media                                               *)
(***************************************************************************)
wd == << <<"out">> >>       \* s.work_dir
sd == << <<"vids">> >>      \* s.sub_dir, relative

Settings(mode, safe_filenames, quiet, include_keyname, clean_all_symlinks) ==
    [work_dir |-> wd, sub_dir |-> sd, mode |-> mode,
     safe_filenames |-> safe_filenames, quiet |-> quiet,
     include_keyname |-> include_keyname,
     clean_all_symlinks |-> clean_all_symlinks]

Category(key, name, home, contents) ==
    [type |-> "Category", key |-> key, name |-> name, home |-> home,
     contents |-> contents]

Media(name, filename, url) ==
    [type |-> "Media", name |-> name, filename |-> filename, url |-> url]

\* Media.exists_in(directory)
exists_in(f, item, directory) == exists(f, pj(directory, <<item.filename>>))

\* str.upper()
upper(str) ==
    [i \in 1..Len(str) |->
        CASE str[i] = "a" -> "A" [] str[i] = "b" -> "B" [] str[i] = "x" -> "X"
          [] str[i] = "y" -> "Y" [] OTHER -> str[i]]

\* def fmt(x) of output_m3u and output_filesystem
fmt(x) == format_filename(x, s.safe_filenames)

\* one call of the writer or of os.symlink, for the history
Call(op, c, i, file, source, name, overwrite, err) ==
    [op |-> op, ci |-> c, ii |-> i, file |-> file, source |-> source,
     name |-> name, overwrite |-> overwrite, err |-> err]

\* one message of msg()
Msg(text, arg) == [text |-> text, arg |-> arg]

(***************************************************************************)
(* The playlist writers                                                    *)
(***************************************************************************)
Chunk(text, source, name) == [text |-> text, source |-> source, name |-> name]

M3uHeader == Chunk("#EXTM3U\n", <<>>, <<>>)
M3uEntry(source, name) == Chunk("#EXTINF:0,{name}\n{source}\n", source, name)
HtmlHeader ==
    Chunk("<!DOCTYPE html>\n<head><meta charset=\"utf-8\" /></head>", <<>>, <<>>)
HtmlEntry(source, name) == Chunk("\n<a href=\"{0}\">{1}</a><br>", source, name)

\* a slip: the non-empty test is dropped, every call truncates
_truncate_file_always(f, file, chunk, overwrite) ==
    LET m == makedirs(f, Front(file))
    IN  IF ~m.ok THEN m ELSE write(m.fs, file, chunk, "w")

_truncate_file(f, file, chunk, overwrite) ==
    LET m == makedirs(f, Front(file))
    IN  IF ~m.ok THEN m
        ELSE IF ~overwrite /\ nonempty(m.fs, file) THEN [ok |-> TRUE, fs |-> m.fs]
        ELSE write(m.fs, file, chunk, "w")

_write_to_m3u(f, source, name, file, overwrite) ==
    LET t == _truncate_file(f, file, M3uHeader, overwrite)
    IN  IF ~t.ok THEN t ELSE write(t.fs, file, M3uEntry(source, name), "a")

_write_to_html(f, source, name, file, overwrite) ==
    LET t == _truncate_file(f, file, HtmlHeader, overwrite)
    IN  IF ~t.ok THEN t ELSE write(t.fs, file, HtmlEntry(source, name), "a")

(***************************************************************************)
(* output_m3u                                                              *)
(***************************************************************************)
\* the keyword arguments create_output passes for s.mode
flat == s.mode = "m3ucompat"
file_ending == IF s.mode = "html" THEN <<".html">> ELSE <<".m3u">>
writer(f, source, name, file, overwrite) ==
    IF s.mode = "html" THEN _write_to_html(f, source, name, file, overwrite)
    ELSE _write_to_m3u(f, source, name, file, overwrite)

\* a slip: the home branch is missing, every non-flat playlist goes to sub_dir
output_file_home_ignored(category) ==
    IF flat
    THEN pj(wd, <<category.key \o <<" - ">> \o fmt(category.name) \o file_ending>>)
    ELSE pj(pj(wd, sd), <<category.key \o file_ending>>)

output_file(category) ==
    IF flat
    THEN pj(wd, <<category.key \o <<" - ">> \o fmt(category.name) \o file_ending>>)
    ELSE IF category.home
    THEN pj(wd, <<fmt(category.name) \o file_ending>>)
    ELSE pj(pj(wd, sd), <<category.key \o file_ending>>)

source_prepend_dir(category) ==
    IF flat \/ category.home THEN sd ELSE <<>>

\* a slip: the local reference is written whether or not the file is there
m3u_source_always_local(f, category, item) ==
    IF item.type = "Category"
    THEN pj(pj(<< <<".">> >>, source_prepend_dir(category)),
            <<item.key \o file_ending>>)
    ELSE pj(pj(<< <<".">> >>, source_prepend_dir(category)), <<item.filename>>)

\* `source` of an entry
m3u_source(f, category, item) ==
    IF item.type = "Category"
    THEN pj(pj(<< <<".">> >>, source_prepend_dir(category)),
            <<item.key \o file_ending>>)
    ELSE IF exists_in(f, item, pj(wd, sd))
         THEN pj(pj(<< <<".">> >>, source_prepend_dir(category)), <<item.filename>>)
         ELSE <<item.url>>

\* `name` of an entry
m3u_name(item) == IF item.type = "Category" THEN upper(item.name) ELSE item.name

\* for category in data: the head of the outer loop
M3uCategory ==
    /\ pc = "output_m3u"
    /\ IF ci = 0 THEN TRUE ELSE ii > Len(data[ci].contents)
    /\ IF ci < Len(data)
       THEN ci' = ci + 1 /\ ii' = 1 /\ is_start' = TRUE /\ pc' = pc
       ELSE pc' = "done" /\ UNCHANGED <<ci, ii, is_start>>
    /\ UNCHANGED <<s, data, stdout_uniq, cwd, fs, fs0, stdout, log, run,
                   todo_dirs, subdir, todo_files, calls, string, safe, result>>

\* for item in category.contents: one pass of the inner loop
M3uItem ==
    /\ pc = "output_m3u"
    /\ ci > 0 /\ ii <= Len(data[ci].contents)
    /\ LET category == data[ci]
           item == category.contents[ii]
           file == output_file(category)
           source == m3u_source(fs, category, item)
           name == m3u_name(item)
           w == writer(fs, source, name, file, is_start)
       IN  IF item.type = "Category" /\ flat
           THEN UNCHANGED <<fs, log, calls, is_start, pc>>
           ELSE /\ log' = IF is_start /\ s.quiet < 1
                          THEN Append(log, Msg("writing: ", file)) ELSE log
                /\ fs' = w.fs
                /\ calls' = Append(calls, Call("writer", ci, ii, file, source, name,
                                               is_start, IF w.ok THEN "" ELSE "OSError"))
                /\ is_start' = FALSE
                /\ pc' = IF w.ok THEN pc ELSE "raised"
    /\ ii' = ii + 1
    /\ UNCHANGED <<s, data, stdout_uniq, cwd, fs0, stdout, run, ci,
                   todo_dirs, subdir, todo_files, string, safe, result>>

(***************************************************************************)
(* output_filesystem                                                       *)
(***************************************************************************)
\* os.path.splitext(filename)[1]: from the last dot that is not the first
\* character; the atoms that hold a dot start with it
HasDot(c) == c \in {".", ".mp4", ".m3u", ".html"}
splitext_ext(filename) ==
    LET dots == {i \in 2..Len(filename) : HasDot(filename[i])}
    IN  IF dots = {} THEN <<>>
        ELSE SubSeq(filename, CHOOSE i \in dots : \A j \in dots : j <= i,
                    Len(filename))

\* a slip: FileExistsError is not caught
try_symlink_uncaught(f, source, link) ==
    LET r == symlink(f, source, link)
    IN  [raised |-> r.err # "", err |-> r.err, fs |-> r.fs]

\* try: os.symlink(source, link) / except FileExistsError: pass
try_symlink(f, source, link) ==
    LET r == symlink(f, source, link)
    IN  [raised |-> r.err \notin {"", "FileExistsError"}, err |-> r.err, fs |-> r.fs]

output_dir(category) == pj(pj(wd, sd), <<category.key>>)

\* `link` of a sub-category or of a media item
fs_link(category, item) ==
    IF item.type = "Category"
    THEN IF s.include_keyname
         THEN pj(output_dir(category), <<item.key \o <<" - ">> \o fmt(item.name)>>)
         ELSE pj(output_dir(category), <<fmt(item.name)>>)
    ELSE pj(output_dir(category),
            <<fmt(item.name \o splitext_ext(item.filename))>>)

\* `source` of a sub-category or of a media item
fs_source(item) ==
    IF item.type = "Category" THEN << <<"..">>, item.key >>
    ELSE << <<"..">>, item.filename >>

\* a slip: a link is made for a media file that is not there
fs_skips_never(f, item) == FALSE

\* if not item.exists_in(pj(wd, sd)): continue
fs_skips(f, item) == item.type = "Media" /\ ~exists_in(f, item, pj(wd, sd))

\* the first lines of output_filesystem
FsBegin ==
    /\ pc = "output_filesystem"
    /\ ci = 0 /\ ii = 0
    /\ log' = IF s.quiet < 1
              THEN Append(log, Msg("creating directory structure", <<>>)) ELSE log
    /\ ii' = 1
    /\ UNCHANGED <<s, data, stdout_uniq, cwd, fs, fs0, stdout, pc, run, ci, is_start,
                   todo_dirs, subdir, todo_files, calls, string, safe, result>>

\* for category in data: the head of the outer loop, the category's
\* directory and its home link
FsCategory ==
    /\ pc = "output_filesystem"
    /\ ii > 0
    /\ IF ci = 0 THEN TRUE ELSE ii > Len(data[ci].contents)
    /\ IF ci < Len(data)
       THEN LET category == data[ci + 1]
                m == makedirs(fs, output_dir(category))
                link == pj(wd, <<fmt(category.name)>>)
                source == pj(sd, <<category.key>>)
                r == try_symlink(m.fs, source, link)
            IN  /\ ci' = ci + 1 /\ ii' = 1
                /\ IF ~m.ok
                   THEN fs' = m.fs /\ pc' = "raised" /\ calls' = calls
                   ELSE IF category.home
                   THEN /\ fs' = r.fs
                        /\ pc' = IF r.raised THEN "raised" ELSE pc
                        /\ calls' = Append(calls, Call("symlink", ci + 1, 0, link,
                                                       source, <<>>, FALSE, r.err))
                   ELSE fs' = m.fs /\ pc' = pc /\ calls' = calls
       ELSE pc' = "done" /\ UNCHANGED <<ci, ii, fs, calls>>
    /\ UNCHANGED <<s, data, stdout_uniq, cwd, fs0, stdout, log, run, is_start,
                   todo_dirs, subdir, todo_files, string, safe, result>>

\* for item in category.contents: one pass of the inner loop
FsItem ==
    /\ pc = "output_filesystem"
    /\ ci > 0 /\ ii > 0 /\ ii <= Len(data[ci].contents)
    /\ LET category == data[ci]
           item == category.contents[ii]
           m == IF item.type = "Category"
                THEN makedirs(fs, pj(pj(wd, sd), <<item.key>>))
                ELSE [ok |-> TRUE, fs |-> fs]
           link == fs_link(category, item)
           source == fs_source(item)
           r == try_symlink(m.fs, source, link)
       IN  IF fs_skips(fs, item)
           THEN UNCHANGED <<fs, pc, calls>>
           ELSE IF ~m.ok
           THEN fs' = m.fs /\ pc' = "raised" /\ calls' = calls
           ELSE /\ fs' = r.fs
                /\ pc' = IF r.raised THEN "raised" ELSE pc
                /\ calls' = Append(calls, Call("symlink", ci, ii, link, source,
                                               <<>>, FALSE, r.err))
    /\ ii' = ii + 1
    /\ UNCHANGED <<s, data, stdout_uniq, cwd, fs0, stdout, log, run, ci,
                   is_start, todo_dirs, subdir, todo_files, string, safe, result>>

\* output_filesystem(s, data) called again on the same arguments
FsAgain ==
    /\ pc = "done" /\ s.mode = "filesystem" /\ run = 1
    /\ run' = 2
    /\ pc' = "output_filesystem" /\ ci' = 0 /\ ii' = 0
    /\ fs0' = fs /\ calls' = <<>>
    /\ UNCHANGED <<s, data, stdout_uniq, cwd, fs, stdout, log, is_start,
                   todo_dirs, subdir, todo_files, string, safe, result>>

(***************************************************************************)
(* clean_symlinks                                                          *)
(***************************************************************************)
\* os.readlink(file)
readlink(f, file) == f[Walk(f, <<>>, file, {}, FALSE)].target

\* a slip: the target is looked up from the scanned path, not from the
\* link's own directory
clean_removes_from_path(f, dir, file) ==
    islink(f, file) /\
    (s.clean_all_symlinks \/ ~exists(f, pj(pj(wd, sd), readlink(f, file))))

\* whether clean_symlinks removes the entry `file` of the directory `dir`
clean_removes(f, dir, file) ==
    islink(f, file) /\
    (s.clean_all_symlinks \/ ~exists(f, pj(dir, readlink(f, file))))

\* The two loops pass over an entry that is no directory (no symlink) with
\* `continue`, which changes nothing; the model leaves these entries out of
\* what is still to visit as soon as the directory is listed.
scan_dirs(f) ==
    {d \in listdir(f, pj(wd, sd)) : isdir(f, pj(pj(wd, sd), <<d>>))}
scan_links(f, dir) == {n \in listdir(f, dir) : islink(f, pj(dir, <<n>>))}

\* path = pj(work_dir, sub_dir); if not isdir(path): return; os.listdir(path)
CleanBegin ==
    /\ pc = "clean_symlinks"
    /\ IF ~isdir(fs, pj(wd, sd))
       THEN pc' = "output_filesystem" /\ todo_dirs' = {}
       ELSE pc' = "clean_symlinks_loop" /\ todo_dirs' = scan_dirs(fs)
    /\ UNCHANGED <<s, data, stdout_uniq, cwd, fs, fs0, stdout, log, run, ci, ii,
                   is_start, subdir, todo_files, calls, string, safe, result>>

\* for subdir in os.listdir(path), in the order the system lists them;
\* after the last one clean_symlinks returns
CleanSubdir ==
    /\ pc = "clean_symlinks_loop"
    /\ todo_files = {}
    /\ IF todo_dirs = {}
       THEN pc' = "output_filesystem" /\ subdir' = <<>>
            /\ UNCHANGED <<todo_dirs, todo_files>>
       ELSE \E d \in todo_dirs :
               /\ todo_dirs' = todo_dirs \ {d}
               /\ subdir' = pj(pj(wd, sd), <<d>>)
               /\ todo_files' = scan_links(fs, subdir')
               /\ pc' = pc
    /\ UNCHANGED <<s, data, stdout_uniq, cwd, fs, fs0, stdout, log, run, ci, ii,
                   is_start, calls, string, safe, result>>

\* for file in os.listdir(subdir), in the order the system lists them
CleanFile ==
    /\ pc = "clean_symlinks_loop"
    /\ \E name \in todo_files :
          LET file == pj(subdir, <<name>>)
          IN  /\ todo_files' = todo_files \ {name}
              /\ IF clean_removes(fs, subdir, file)
                 THEN /\ log' = IF s.quiet < 1
                                THEN Append(log, Msg("removing link: ", <<name>>))
                                ELSE log
                      /\ fs' = remove(fs, file)
                 ELSE UNCHANGED <<fs, log>>
    /\ UNCHANGED <<s, data, stdout_uniq, cwd, fs0, stdout, pc, run, ci, ii,
                   is_start, todo_dirs, subdir, calls, string, safe, result>>

(***************************************************************************)
(* output_stdout                                                           *)
(***************************************************************************)
\* os.path.relpath(path, start) of two absolute paths
RECURSIVE relpath(_, _)
relpath(path, start) ==
    IF path # <<>> /\ start # <<>> /\ Head(path) = Head(start)
    THEN relpath(Tail(path), Tail(start))
    ELSE LET r == [i \in 1..Len(start) |-> <<"..">>] \o path
         IN  IF r = <<>> THEN << <<".">> >> ELSE r

\* the lines one category adds to `out`
RECURSIVE stdout_items(_, _)
stdout_items(f, contents) ==
    IF contents = <<>> THEN <<>>
    ELSE LET item == Head(contents)
             line == IF item.type # "Media" THEN <<>>
                     ELSE IF exists_in(f, item, cwd)
                     THEN <<relpath(pj(cwd, <<item.filename>>), wd)>>
                     ELSE << <<item.url>> >>
         IN  line \o stdout_items(f, Tail(contents))

\* `out` after the loops
RECURSIVE stdout_out(_, _)
stdout_out(f, categories) ==
    IF categories = <<>> THEN <<>>
    ELSE stdout_items(f, Head(categories).contents) \o stdout_out(f, Tail(categories))

\* the orders in which a set may be iterated
Orders(S) ==
    {q \in [1..Cardinality(S) -> S] : \A i, j \in DOMAIN q : i # j => q[i] # q[j]}

OutputStdout ==
    /\ pc = "output_stdout"
    /\ LET out == stdout_out(fs, data)
       IN  IF stdout_uniq
           THEN \E q \in Orders({out[i] : i \in DOMAIN out}) :
                    stdout' = Append(stdout, q)
           ELSE stdout' = Append(stdout, out)
    /\ pc' = "done"
    /\ UNCHANGED <<s, data, stdout_uniq, cwd, fs, fs0, log, run, ci, ii,
                   is_start, todo_dirs, subdir, todo_files, calls, string, safe,
                   result>>

(***************************************************************************)
(* create_output                                                           *)
(***************************************************************************)
\* a slip: an unknown mode falls back to the stdout emitter
create_output_default_stdout(mode) ==
    CASE mode = "m3u" -> "output_m3u"
      [] mode = "filesystem" -> "clean_symlinks"
      [] mode = "m3ucompat" -> "output_m3u"
      [] mode = "html" -> "output_m3u"
      [] OTHER -> "output_stdout"

\* what create_output does first for s.mode
create_output(mode) ==
    CASE mode = "stdout" -> "output_stdout"
      [] mode = "m3u" -> "output_m3u"
      [] mode = "filesystem" -> "clean_symlinks"
      [] mode = "m3ucompat" -> "output_m3u"
      [] mode = "html" -> "output_m3u"
      [] OTHER -> "raised"

CreateOutput ==
    /\ pc = "create_output"
    /\ pc' = create_output(s.mode)
    /\ UNCHANGED <<s, data, stdout_uniq, cwd, fs, fs0, stdout, log, run, ci, ii,
                   is_start, todo_dirs, subdir, todo_files, calls, string, safe,
                   result>>

(***************************************************************************)
(* format_filename on its own                                              *)
(***************************************************************************)
FormatFilename ==
    /\ pc = "format_filename"
    /\ result' = format_filename(string, safe)
    /\ pc' = "returned"
    /\ UNCHANGED <<s, data, stdout_uniq, cwd, fs, fs0, stdout, log, run, ci, ii,
                   is_start, todo_dirs, subdir, todo_files, calls, string, safe>>

(***************************************************************************)
(* The inputs the specifications draw from                                 *)
(***************************************************************************)
K1 == <<"K1">>
K2 == <<"K2">>
K9 == <<"K9">>
TopKeys == <<K1, K2>>        \* the keys of data[1], data[2]

\* two media items whose names sanitize to the same link name
M1 == Media(<<"x">>, <<"v1", ".mp4">>, <<"http://x/v1.mp4">>)
M2 == Media(<<"x", "/">>, <<"v2", ".mp4">>, <<"http://x/v2.mp4">>)
MediaItems == {M1, M2}

\* the names a category with this key may have: the first name of K1 and
\* the name of K2 sanitize to the same file name, the second does not
CatNames(key) == IF key = K1 THEN {<<"a">>, <<"c", ":">>} ELSE {<<"a", "/">>}

\* what a category may contain: the media and a sub-category (a Category
\* object of its own)
Items == MediaItems \cup {Category(K9, <<"b", ":">>, FALSE, <<>>)}

\* contents of at most n items, each listed once
Contents(n) ==
    {q \in SeqsUpTo(Items, n) : \A i, j \in DOMAIN q : i # j => q[i] # q[j]}

Categories(key, n) ==
    {Category(key, name, home, contents) :
        name \in CatNames(key), home \in BOOLEAN, contents \in Contents(n)}

\* lists of at most two categories, with the keys of TopKeys
Datas ==
    {<<>>} \cup {<<c>> : c \in Categories(TopKeys[1], MaxItems)}
           \cup {d \in {<<c1, c2>> : c1 \in Categories(TopKeys[1], MaxItems),
                                    c2 \in Categories(TopKeys[2], MaxItems)} :
                    Len(d[1].contents) + Len(d[2].contents) <= MaxItems}

\* the tree that holds the entries (pairs of a path and a node) of E
Tree(E) == [p \in {e[1] : e \in E} |-> (CHOOSE e \in E : e[1] = p)[2]]

\* the media files downloaded to <work_dir>/<sub_dir>
MediaFile(m) == <<pj(pj(wd, sd), <<m.filename>>), FileNode(<<>>)>>
Downloads(ms) == {<<wd, DirNode>>, <<pj(wd, sd), DirNode>>} \cup {MediaFile(m) : m \in ms}

\* a working directory nothing was written to yet
Fresh == Tree({<<wd, DirNode>>})

OldChunk == Chunk("old", <<>>, <<>>)

\* the playlist paths of one category, in every mode's layout
PlaylistPaths(c) ==
    {pj(wd, <<c.key \o <<" - ">> \o fmt(c.name) \o file_ending>>),
     pj(wd, <<fmt(c.name) \o file_ending>>),
     pj(pj(wd, sd), <<c.key \o file_ending>>)}

\* playlists an earlier run left: none, empty ones, or ones with content
Stale(kind, d) ==
    IF kind = "none" THEN {}
    ELSE {<<p, FileNode(IF kind = "empty" THEN <<>> ELSE <<OldChunk>>)>> :
             p \in UNION {PlaylistPaths(d[i]) : i \in DOMAIN d}}

InitRest ==
    /\ fs0 = fs
    /\ stdout = <<>> /\ log = <<>> /\ calls = <<>>
    /\ run = 1 /\ ci = 0 /\ ii = 0 /\ is_start = TRUE
    /\ todo_dirs = {} /\ subdir = <<>> /\ todo_files = {}
    /\ string = <<>> /\ safe = FALSE /\ result = <<>>

(***************************************************************************)
(* SpecM3u: create_output in the playlist modes                            *)
(***************************************************************************)
InitM3u ==
    /\ s \in {Settings(mode, sf, 0, FALSE, FALSE) :
                 mode \in {"m3u", "m3ucompat", "html"}, sf \in BOOLEAN}
    /\ data \in Datas
    /\ stdout_uniq = FALSE
    /\ cwd = wd
    /\ fs \in {Fresh} \cup {Tree(Downloads(ms) \cup Stale(kind, data)) :
                               ms \in SUBSET MediaItems,
                               kind \in {"none", "empty", "old"}}
    /\ pc = "create_output"
    /\ InitRest

NextM3u == CreateOutput \/ M3uCategory \/ M3uItem

SpecM3u == InitM3u /\ [][NextM3u]_vars

(***************************************************************************)
(* SpecFormat: format_filename on its own                                  *)
(***************************************************************************)
InitFormat ==
    /\ s = Settings("stdout", FALSE, 0, FALSE, FALSE)
    /\ data = <<>>
    /\ stdout_uniq = FALSE
    /\ cwd = wd
    /\ fs = Fresh
    /\ pc = "format_filename"
    /\ fs0 = fs
    /\ stdout = <<>> /\ log = <<>> /\ calls = <<>>
    /\ run = 1 /\ ci = 0 /\ ii = 0 /\ is_start = TRUE
    /\ todo_dirs = {} /\ subdir = <<>> /\ todo_files = {}
    /\ string \in SeqsUpTo(Alphabet, MaxLen) /\ safe \in BOOLEAN /\ result = <<>>

NextFormat == FormatFilename

SpecFormat == InitFormat /\ [][NextFormat]_vars

(***************************************************************************)
(* Claims about output_m3u (checked under SpecM3u)                         *)
(***************************************************************************)
Range(q) == {q[i] : i \in DOMAIN q}
LocalSource(item) == pj(pj(<< <<".">> >>, sd), <<item.filename>>)
MediaPath(item) == pj(pj(wd, sd), <<item.filename>>)
ItemOf(call) == data[call.ci].contents[call.ii]
IsEntry(chunk) == chunk.text \in {M3uEntry(<<>>, <<>>).text, HtmlEntry(<<>>, <<>>).text}

\* the sources found in the playlists of this run's format
WrittenSources ==
    {ch.source : ch \in UNION {Range(fs[p].content) :
                                 p \in {q \in DOMAIN fs : fs[q].kind = "file"}}}

\* C1, as stated: in flat mode the source written for every media entry is
\* ./<sub_dir>/<filename> whether or not the media file exists locally, and
\* the remote URL is never written.
C1_FlatSourceAlwaysLocal ==
    flat =>
        /\ \A i \in DOMAIN calls :
              ItemOf(calls[i]).type = "Media"
                  => calls[i].source = LocalSource(ItemOf(calls[i]))
        /\ \A m \in MediaItems : <<m.url>> \notin WrittenSources

\* C1, amended: in flat mode the source written for a media entry is
\* ./<sub_dir>/<filename> when the media file exists under
\* <work_dir>/<sub_dir>, and the remote URL when it does not; a sub-category
\* is never written.
C1_FlatSourceByExistence ==
    flat =>
        /\ \A i \in DOMAIN calls :
              /\ ItemOf(calls[i]).type = "Media"
              /\ calls[i].source =
                    IF MediaPath(ItemOf(calls[i])) \in DOMAIN fs0
                    THEN LocalSource(ItemOf(calls[i]))
                    ELSE <<ItemOf(calls[i]).url>>
        /\ \A m \in MediaItems :
              /\ MediaPath(m) \in DOMAIN fs0 => <<m.url>> \notin WrittenSources
              /\ MediaPath(m) \notin DOMAIN fs0 => LocalSource(m) \notin WrittenSources

\* a flat run has written an entry for a media file that is not there and
\* an entry for one that is
C1_Witness ==
    /\ flat /\ pc = "done"
    /\ \E i, j \in DOMAIN calls :
          /\ MediaPath(ItemOf(calls[i])) \notin DOMAIN fs0
          /\ MediaPath(ItemOf(calls[j])) \in DOMAIN fs0

\* the writer calls made for data[k], in order
CallsOf(k) == SelectSeq(calls, LAMBDA c : c.op = "writer" /\ c.ci = k)
\* the items of data[k] that get an entry, in the order of contents
Listed(k) ==
    SelectSeq(data[k].contents, LAMBDA item : ~(flat /\ item.type = "Category"))
Header == IF s.mode = "html" THEN HtmlHeader ELSE M3uHeader
Entry(source, name) ==
    IF s.mode = "html" THEN HtmlEntry(source, name) ELSE M3uEntry(source, name)
Unshared(k) == \A j \in DOMAIN data : j # k => output_file(data[j]) # output_file(data[k])

\* C2: when output_m3u returns, the playlist file of every category that
\* wrote at least one entry and shares its file with no other category
\* holds the format's header once, then exactly that category's entries in
\* the order of category.contents, and nothing it held before the run.
C2_FirstOverwritesRestAppend ==
    pc = "done" =>
        \A k \in DOMAIN data :
            (CallsOf(k) # <<>> /\ Unshared(k)) =>
                /\ output_file(data[k]) \in DOMAIN fs
                /\ Len(CallsOf(k)) = Len(Listed(k))
                /\ fs[output_file(data[k])].content =
                      <<Header>> \o
                      [i \in 1..Len(CallsOf(k)) |->
                          Entry(CallsOf(k)[i].source, m3u_name(Listed(k)[i]))]
                /\ \A i \in 1..Len(CallsOf(k)) :
                      /\ ItemOf(CallsOf(k)[i]) = Listed(k)[i]
                      /\ CallsOf(k)[i].overwrite = (i = 1)

\* a run has ended in which a category wrote two entries to a file of its
\* own that held content before the run
C2_Witness ==
    /\ pc = "done"
    /\ \E k \in DOMAIN data :
          /\ Len(CallsOf(k)) >= 2 /\ Unshared(k)
          /\ output_file(data[k]) \in DOMAIN fs0
          /\ fs0[output_file(data[k])].content = <<OldChunk>>

HomeFile(c) == pj(wd, <<fmt(c.name) \o file_ending>>)
SubdirFile(c) == pj(pj(wd, sd), <<c.key \o file_ending>>)
IsFile(f, p) == p \in DOMAIN f /\ f[p].kind = "file"
Untouched(p) == IF p \in DOMAIN fs0 THEN p \in DOMAIN fs /\ fs[p] = fs0[p]
                ELSE p \notin DOMAIN fs

\* C4, as stated: after a non-flat run the playlist of every home category
\* exists directly under the working directory and is not put under the
\* subdirectory, and the playlist of every other category exists under the
\* subdirectory.
C4_PlaylistPlaceEveryCategory ==
    (pc = "done" /\ ~flat) =>
        \A k \in DOMAIN data :
            IF data[k].home
            THEN IsFile(fs, HomeFile(data[k])) /\ Untouched(SubdirFile(data[k]))
            ELSE IsFile(fs, SubdirFile(data[k]))

\* C4, amended: the same for every category with at least one item in its
\* contents; a category without items gets no playlist file.
C4_PlaylistPlaceNonEmptyCategory ==
    (pc = "done" /\ ~flat) =>
        \A k \in DOMAIN data :
            IF data[k].contents = <<>>
            THEN Unshared(k) => Untouched(output_file(data[k]))
            ELSE IF data[k].home
            THEN /\ IsFile(fs, HomeFile(data[k]))
                 /\ Header \in Range(fs[HomeFile(data[k])].content)
                 /\ Untouched(SubdirFile(data[k]))
            ELSE /\ IsFile(fs, SubdirFile(data[k]))
                 /\ Header \in Range(fs[SubdirFile(data[k])].content)

\* a non-flat run has ended for a home category and another category that
\* both have items, in a directory that held no playlist
C4_Witness ==
    /\ pc = "done" /\ ~flat /\ Len(data) = 2
    /\ data[1].home /\ ~data[2].home
    /\ data[1].contents # <<>> /\ data[2].contents # <<>>
    /\ HomeFile(data[1]) \notin DOMAIN fs0 /\ SubdirFile(data[2]) \notin DOMAIN fs0

(***************************************************************************)
(* SpecFs: create_output in filesystem mode, then output_filesystem again  *)
(***************************************************************************)
Dir(p) == <<p, DirNode>>
File(p) == <<p, FileNode(<<>>)>>
Link(p, target) == <<p, LinkNode(target)>>
InK1(name) == pj(pj(pj(wd, sd), <<K1>>), <<name>>)

\* what was in the working directory before the run, besides the media:
\* nothing; links of an earlier run on other input (to a media file, which
\* may be gone by now, and to another category's directory; a home link to
\* another category); or regular files where the run wants links and a
\* directory
Before(kind) ==
    CASE kind = "links" ->
            {Dir(pj(pj(wd, sd), <<K1>>)), Dir(pj(pj(wd, sd), <<K2>>)),
             Link(InK1(<<"x", ".mp4">>), << <<"..">>, <<"v2", ".mp4">> >>),
             Link(InK1(<<"b", ":">>), << <<"..">>, K2 >>),
             Link(pj(wd, << <<"a">> >>), pj(sd, <<K2>>))}
      [] kind = "files" ->
            {Dir(pj(pj(wd, sd), <<K1>>)),
             File(InK1(<<"x", ".mp4">>)),
             File(pj(wd, << <<"a">> >>)),
             File(pj(pj(wd, sd), <<K9>>))}
      [] OTHER -> {}

FsTrees ==
    {Fresh} \cup {Tree(Downloads(ms) \cup Before(kind)) :
                     ms \in {{}, {M1}, {M1, M2}}, kind \in {"none", "links", "files"}}

InitFs ==
    /\ s \in {Settings("filesystem", sf, 1, ik, ca) :
                 sf \in BOOLEAN, ik \in BOOLEAN, ca \in BOOLEAN}
    /\ data \in Datas
    /\ stdout_uniq = FALSE
    /\ cwd = wd
    /\ fs \in FsTrees
    /\ pc = "create_output"
    /\ InitRest

NextFs ==
    \/ CreateOutput
    \/ CleanBegin \/ CleanSubdir \/ CleanFile
    \/ FsBegin \/ FsCategory \/ FsItem
    \/ FsAgain

SpecFs == InitFs /\ [][NextFs]_vars

(***************************************************************************)
(* Claims about output_filesystem (checked under SpecFs)                   *)
(***************************************************************************)
\* the symlinks directly inside a directory that is a direct child of
\* <work_dir>/<sub_dir>
ChildLinks(f) ==
    {p \in DOMAIN f :
        /\ Len(p) = Len(pj(wd, sd)) + 2
        /\ SubSeq(p, 1, Len(pj(wd, sd))) = pj(wd, sd)
        /\ Front(p) \in DOMAIN f /\ f[Front(p)].kind = "dir"
        /\ f[p].kind = "link"}
\* the link's target, resolved from the link's own directory, exists
Resolves(f, p) == exists(f, pj(Front(p), f[p].target))

\* C3: when output_filesystem has run to its end and is run again on the
\* same arguments and tree, the second run raises nothing and creates no
\* directory and no symlink: the tree stays as the first run left it.
C3_SecondRunChangesNothing ==
    run = 2 =>
        /\ pc # "raised"
        /\ fs = fs0
        /\ \A i \in DOMAIN calls : calls[i].err = "FileExistsError"

\* the second run has ended after trying a home link, a sub-category link
\* and a media link again
C3_Witness ==
    /\ run = 2 /\ pc = "done"
    /\ \E i, j, k \in DOMAIN calls :
          /\ calls[i].ii = 0
          /\ calls[j].ii > 0 /\ ItemOf(calls[j]).type = "Category"
          /\ calls[k].ii > 0 /\ ItemOf(calls[k]).type = "Media"

\* C8: in output_filesystem a symlink call whose path is taken is a no-op
\* that is not fatal: nothing that exists is changed or replaced, no
\* symlink appears, and the emitter goes on with the next item.
C8_ExistingEntryWins ==
    [][(pc = "output_filesystem" /\ calls' # calls /\ calls' # <<>>
        /\ lexists(fs, Last(calls').file))
       => /\ pc' = "output_filesystem"
          /\ Last(calls').err = "FileExistsError"
          /\ \A p \in DOMAIN fs : p \in DOMAIN fs' /\ fs'[p] = fs[p]
          /\ \A p \in DOMAIN fs' \ DOMAIN fs : fs'[p].kind = "dir"
          /\ ii' = IF Last(calls').ii = 0 THEN 1 ELSE ii + 1]_vars

\* a symlink call has met an entry with another target (or a regular file)
\* at its path, and the emitter is at the next item
C8_Witness ==
    /\ pc = "output_filesystem" /\ calls # <<>>
    /\ Last(calls).err = "FileExistsError"
    /\ fs[Last(calls).file].target # Last(calls).source
    /\ ii = Last(calls).ii + 1

\* C10: when create_output in filesystem mode has ended without an error,
\* every symlink directly inside a direct child directory of
\* <work_dir>/<sub_dir> resolves, from its own directory, to something that
\* exists.
C10_NoDanglingLink ==
    (pc = "done" /\ run = 1) => \A p \in ChildLinks(fs) : Resolves(fs, p)

\* the run has ended with a link that was there before and kept, after a
\* dangling link was cleaned away, and with a link made in this run
C10_Witness ==
    /\ pc = "done" /\ run = 1 /\ ~s.clean_all_symlinks
    /\ \E p \in ChildLinks(fs0) : ~Resolves(fs0, p) /\ p \notin DOMAIN fs
    /\ \E p \in ChildLinks(fs0) : p \in DOMAIN fs
    /\ \E p \in ChildLinks(fs) : p \notin DOMAIN fs0

(***************************************************************************)
(* SpecClean: clean_symlinks on its own, on trees of many shapes           *)
(***************************************************************************)
InSd(name) == pj(pj(wd, sd), <<name>>)
InK2(name) == pj(InSd(K2), <<name>>)
Deep == InK1(<<"deep">>)

\* what may be under <work_dir>/<sub_dir> besides the directory K1:
\* at the top a second directory, a media file, a dangling symlink and a
\* symlink to the directory K1; in K1 links to the media file (directly,
\* through a sibling link, through a link in K2, and by a path that only
\* resolves from <work_dir>/<sub_dir>), a regular file and a directory with
\* a dangling link of its own; in K2 a link to the media file
Optional ==
    {Dir(InSd(K2)),
     File(InSd(<<"v1", ".mp4">>)),
     Link(InSd(<<"dl">>), << <<"gone">> >>),
     Link(InSd(<<"K3">>), <<K1>>),
     Link(InK1(<<"l1">>), << <<"..">>, <<"v1", ".mp4">> >>),
     Link(InK1(<<"l2">>), << <<"l1">> >>),
     Link(InK1(<<"l3">>), << <<"..">>, K2, <<"m">> >>),
     Link(InK1(<<"l4">>), << <<"v1", ".mp4">> >>),
     File(InK1(<<"f">>)),
     Dir(Deep),
     Link(pj(Deep, << <<"dd">> >>), << <<"..">>, <<"gone">> >>),
     Link(InK2(<<"m">>), << <<"..">>, <<"v1", ".mp4">> >>)}

CleanTrees ==
    {Fresh, Tree({Dir(wd), File(pj(wd, sd))})} \cup
    {Tree({Dir(wd), Dir(pj(wd, sd)), Dir(InSd(K1))} \cup E) :
        E \in {X \in SUBSET Optional :
                  \A e \in X : \/ Front(e[1]) \in {pj(wd, sd), InSd(K1)}
                              \/ \E d \in X : d[1] = Front(e[1])
                                               /\ d[2].kind = "dir"}}

InitClean ==
    /\ s \in {Settings("filesystem", FALSE, 0, FALSE, ca) : ca \in BOOLEAN}
    /\ data = <<>>
    /\ stdout_uniq = FALSE
    /\ cwd = wd
    /\ fs \in CleanTrees
    /\ pc = "clean_symlinks"
    /\ InitRest

NextClean == CleanBegin \/ CleanSubdir \/ CleanFile

SpecClean == InitClean /\ [][NextClean]_vars

\* the links clean_symlinks is to remove from the tree f
Stale_links(f) ==
    {p \in ChildLinks(f) : s.clean_all_symlinks \/ ~Resolves(f, p)}

Modes == {"stdout", "m3u", "filesystem", "m3ucompat", "html"}

Init ==
    /\ s \in {Settings(mode, sf, quiet, FALSE, FALSE) :
                 mode \in Modes \cup {"json"}, sf \in BOOLEAN, quiet \in {0, 1}}
    /\ data \in Datas
    /\ stdout_uniq \in IF s.mode = "stdout" THEN BOOLEAN ELSE {FALSE}
    /\ cwd \in IF s.mode = "stdout" THEN {wd, pj(wd, sd)} ELSE {wd}
    /\ fs \in {Fresh, Tree(Downloads(MediaItems)),
               Tree(Downloads({M1}) \cup Before("links"))}
    /\ pc = "create_output"
    /\ InitRest

Next ==
    \/ CreateOutput
    \/ OutputStdout
    \/ M3uCategory \/ M3uItem
    \/ CleanBegin \/ CleanSubdir \/ CleanFile
    \/ FsBegin \/ FsCategory \/ FsItem

Spec == Init /\ [][Next]_vars

HomeLink(c) == pj(wd, <<fmt(c.name)>>)
Homes == {k \in DOMAIN data : data[k].home}
\* the playlist that data[k] alone would write
PlaylistOf(k) ==
    <<Header>> \o [i \in 1..Len(CallsOf(k)) |->
                      Entry(CallsOf(k)[i].source, CallsOf(k)[i].name)]
\* data[k] has its own entry point in the working directory: in the
\* playlist modes (for a category that has entries) the file holding its
\* entries, in filesystem mode (where the path was free before the run)
\* the link to its directory
OwnEntryPoint(k) ==
    /\ s.mode \in {"m3u", "html"} /\ data[k].contents # <<>> =>
          /\ IsFile(fs, HomeFile(data[k]))
          /\ fs[HomeFile(data[k])].content = PlaylistOf(k)
    /\ s.mode = "filesystem" /\ HomeLink(data[k]) \notin DOMAIN fs0 =>
          /\ HomeLink(data[k]) \in DOMAIN fs
          /\ fs[HomeLink(data[k])] = LinkNode(pj(sd, <<data[k].key>>))

\* C6, as stated: when several categories are marked home, each has its
\* own entry point in the working directory when the run ends, whatever
\* the other home categories are.
C6_EveryHomeHasEntryPoint ==
    (pc = "done" /\ Cardinality(Homes) >= 2) => \A k \in Homes : OwnEntryPoint(k)

\* C7: with a mode that is none of the five, create_output raises before
\* anything is printed, written, created or removed.
C7_InvalidModeNoOutput ==
    s.mode \notin Modes =>
        /\ pc \in {"create_output", "raised"}
        /\ fs = fs0
        /\ stdout = <<>> /\ log = <<>> /\ calls = <<>>

\* create_output has raised for an unknown mode, given categories with
\* items and a tree with links to clean
C7_Witness ==
    /\ s.mode \notin Modes /\ pc = "raised"
    /\ Len(data) = 2 /\ data[1].contents # <<>>
    /\ ChildLinks(fs) # {}

(***************************************************************************)
(* Claims about format_filename (checked under SpecFormat)                 *)
(***************************************************************************)
UnixForbidden == {"/", NUL}
SafeForbidden == {"<", ">", ":", "\"", "|", "?", "*", "/", NUL}
\* what a character of the input becomes in safe mode, if it is kept
SafeImage(c) == IF c = ":" THEN "." ELSE IF c = "\"" THEN "'" ELSE c

\* the input, character by character: the dropped ones left out, the others
\* replaced by their image
RECURSIVE Expected(_, _)
Expected(str, is_safe) ==
    IF str = <<>> THEN <<>>
    ELSE LET c == Head(str)
             rest == Expected(Tail(str), is_safe)
         IN  IF is_safe
             THEN IF c \in SafeForbidden \ {":", "\""} THEN rest
                  ELSE <<SafeImage(c)>> \o rest
             ELSE IF c \in UnixForbidden THEN rest ELSE <<c>> \o rest

\* C9: format_filename(name, safe=False) is the input without its / and
\* NUL, the rest in order; format_filename(name, safe=True) holds none of
\* < > : " | ? * / NUL, has a . for every : and a ' for every " of the input
\* at the same place among the kept characters, and keeps every other
\* character that is not forbidden, in order.
C9_FormatFilename ==
    pc = "returned" =>
        /\ result = Expected(string, safe)
        /\ \A i \in DOMAIN result :
              result[i] \notin (IF safe THEN SafeForbidden ELSE UnixForbidden)
        /\ ~safe => Len(result) = Cardinality({i \in DOMAIN string :
                                                  string[i] \notin UnixForbidden})

\* format_filename has returned in safe mode for a string with a colon, a
\* double quote and a forbidden character
C9_Witness ==
    /\ pc = "returned" /\ safe
    /\ {":", "\"", "*"} \subseteq Range(string)
    /\ result # string

====
